---- MODULE Spec2Model ----
(***************************************************************************)
(* Tool-calling control loops of the Superstore analysis agent:            *)
(*   call_tool             the tool dispatcher                             *)
(*   enterprise_agent      the structured function-calling loop            *)
(*   enterprise_agent_new  the two-step text-convention loop               *)
(*   call_tool_two_step    the text parser in front of the dispatcher      *)
(* Python strings are TLA+ strings; a Python dict is a function whose      *)
(* domain is its key set; a call's outcome is a record that is either a    *)
(* returned value or a raised exception.                                   *)
(***************************************************************************)
EXTENDS Integers, Sequences, FiniteSets, TLC

VARIABLES
    \* ---- dispatcher called on its own (call_tool) ----
    d_pc,                 \* "ready" | "done" ("idle" when not called)
    d_name,               \* tool name argument
    d_kwargs,             \* keyword-argument mapping
    d_df,                 \* dataset argument
    d_outcome,            \* outcome of the call, NoOutcome before it
    d_invoked,            \* analysis functions entered by the call
    \* ---- structured loop (enterprise_agent) ----
    pc,                   \* "call_model" | "done" ("idle" when not run)
    user_query,
    df,
    turn,                 \* loop variable of for turn in range(max_turns)
    conversation_history,
    contents,             \* conversation state handed to the last model call
    model_calls,          \* generate_content calls issued by this run
    dispatches,           \* call_tool calls issued by this run
    last_dispatch,        \* name, kwargs, outcome, invoked of the last call_tool
    api_error,            \* <<e>> once generate_content raised e, <<>> before
    final_response,       \* the response without a tool-call request, NoResponse before
    requests,             \* count and first of the requests in the last tool-call response
    later_run,            \* TRUE once enterprise_agent has been invoked again
    run_outcome,          \* what the run gave its caller, NoOutcome while running
    \* ---- two-step loop (enterprise_agent_new) ----
    ts_pc,                \* "decide" | "branch" | "interpret" | "done" ("idle" when not run)
    ts_query,
    ts_df,
    decision,
    tool_call_string,
    tool_output_str,
    ts_model_calls,
    ts_dispatches,
    ts_last_dispatch,
    ts_contents,          \* prompt handed to the last model call
    ts_failed_call,       \* which model call raised, "none" if none did
    ts_answer,            \* <<text>> of the interpretation or fallback call, <<>> before
    ts_outcome

d_vars == <<d_pc, d_name, d_kwargs, d_df, d_outcome, d_invoked>>
s_vars == <<pc, user_query, df, turn, conversation_history, contents,
            model_calls, dispatches, last_dispatch, api_error, final_response,
            requests, later_run, run_outcome>>
ts_vars == <<ts_pc, ts_query, ts_df, decision, tool_call_string, tool_output_str,
             ts_model_calls, ts_dispatches, ts_last_dispatch, ts_contents,
             ts_failed_call, ts_answer, ts_outcome>>
vars == <<d_vars, s_vars, ts_vars>>

-----------------------------------------------------------------------------
(* Outcomes of a Python call *)

NoOutcome == [kind |-> "none"]
Return(v) == [kind |-> "return", value |-> v]
Raise(e) == [kind |-> "raise", exc |-> e]

NoResponse == [function_calls |-> <<>>, text |-> <<>>, none |-> TRUE]

NoRequests == [count |-> 0]

NoDispatch == [name |-> "", kwargs |-> <<>>, outcome |-> NoOutcome, invoked |-> {}]

-----------------------------------------------------------------------------
(* Datasets.  A DataFrame is abstracted to what the tools branch on: whether *)
(* the reference is None, its row count, its columns and which are numeric.  *)

NoneDF == [isNone |-> TRUE, rows |-> 0, columns |-> {}, numeric |-> {}]
EmptyDF == [isNone |-> FALSE, rows |-> 0, columns |-> {}, numeric |-> {}]
SuperstoreDF ==
    [isNone |-> FALSE, rows |-> 3,
     columns |-> {"sales", "profit", "category", "segment", "discount"},
     numeric |-> {"sales", "profit", "discount"}]
PartialDF ==
    [isNone |-> FALSE, rows |-> 2,
     columns |-> {"sales", "category"}, numeric |-> {"sales"}]

DataFrames == {NoneDF, EmptyDF, SuperstoreDF, PartialDF}

-----------------------------------------------------------------------------
(* tools.py *)

NoneTypeError(attr) == "'NoneType' object has no attribute '" \o attr \o "'"

\* df.empty: no rows or no columns
df_empty(d) == d.rows = 0 \/ d.columns = {}

data_summary(d) ==
    IF d.isNone \/ df_empty(d)
    THEN Return([error |-> "DataFrame is None or empty."])
    ELSE Return([shape |-> <<d.rows, Cardinality(d.columns)>>,
                 columns |-> d.columns])

required_cols == {"sales", "profit", "category", "segment", "discount"}

\* disk_ok: whether plt.savefig can write the chart files
automated_eda(d, disk_ok) ==
    IF d.isNone THEN Raise(NoneTypeError("columns"))
    ELSE IF ~(required_cols \subseteq d.columns)
    THEN Return([error |-> "Missing required columns for EDA."])
    ELSE IF ~disk_ok THEN Raise("[Errno 28] No space left on device")
    ELSE Return([sales_distribution_plot |-> "sales_distribution.png",
                 category_performance_plot |-> "category_performance.png",
                 discount_profit_scatter_plot |-> "discount_profit_scatter.png"])

check_for_outliers(d, column_name) ==
    IF d.isNone THEN Raise(NoneTypeError("columns"))
    ELSE IF column_name \notin d.columns \/ column_name \notin d.numeric
    THEN Return([error |-> "Column '" \o column_name \o "' not found or is not numeric."])
    ELSE IF d.rows = 0
    THEN Return([error |-> "Column '" \o column_name \o "' is empty after dropping NaN values."])
    ELSE Return([column |-> column_name,
                 note |-> "Outliers are defined by the 1.5 * IQR rule."])

-----------------------------------------------------------------------------
(* agent_patterns.py: call_tool *)

\* Binding call_tool(name, df, **kwargs): a keyword that names a positional
\* parameter collides with it and Python raises TypeError before the body runs.
call_tool_params == {"name", "df"}

BindingCollision(kwargs) == DOMAIN kwargs \cap call_tool_params # {}

BindingError(kwargs) ==
    "call_tool() got multiple values for argument '"
        \o (CHOOSE p \in call_tool_params :
               /\ p \in DOMAIN kwargs
               /\ (p = "name" \/ "name" \notin DOMAIN kwargs))
        \o "'"

\* The body of call_tool: the outcome and the analysis functions it entered.
call_tool_body(name, d, kwargs, disk_ok) ==
    IF name = "data_summary"
    THEN [outcome |-> data_summary(d), invoked |-> {"data_summary"}]
    ELSE IF name = "automated_eda"
    THEN [outcome |-> automated_eda(d, disk_ok), invoked |-> {"automated_eda"}]
    ELSE IF name = "check_for_outliers"
    THEN IF "column_name" \notin DOMAIN kwargs
         THEN [outcome |-> Return([error |->
                   "Tool 'check_for_outliers' requires the 'column_name' parameter."]),
               invoked |-> {}]
         ELSE [outcome |-> check_for_outliers(d, kwargs["column_name"]),
               invoked |-> {"check_for_outliers"}]
    ELSE [outcome |-> Return([error |-> "Unknown tool: " \o name]), invoked |-> {}]

\* A call call_tool(name, df, **kwargs) as its callers make it.
call_tool(name, d, kwargs, disk_ok) ==
    IF BindingCollision(kwargs)
    THEN [outcome |-> Raise(BindingError(kwargs)), invoked |-> {}]
    ELSE call_tool_body(name, d, kwargs, disk_ok)

Dispatched(name, kwargs, r) ==
    [name |-> name, kwargs |-> kwargs, outcome |-> r.outcome, invoked |-> r.invoked]

-----------------------------------------------------------------------------
(* Inputs *)

MaxFunctionCalls == 2     \* tool-call requests in one model response

ToolNames ==
    {"data_summary", "automated_eda", "check_for_outliers",
     "Data_Summary", "CHECK_FOR_OUTLIERS", "summary", ""}

KwargMappings ==
    {<<>>,
     "column_name" :> "profit",
     "column_name" :> "category",
     "column_name" :> "zz",
     "name" :> "x",
     "df" :> "x",
     "threshold" :> "3",
     ("column_name" :> "profit") @@ ("name" :> "x"),
     ("column_name" :> "profit") @@ ("threshold" :> "3"),
     ("name" :> "x") @@ ("df" :> "y")}

\* tool-call requests a model response can carry (name + args)
FunctionCall(name, args) == [name |-> name, args |-> args]

ModelToolCalls ==
    {FunctionCall("data_summary", <<>>),
     FunctionCall("automated_eda", <<>>),
     FunctionCall("check_for_outliers", "column_name" :> "profit"),
     FunctionCall("check_for_outliers", "name" :> "x"),
     FunctionCall("summary", <<>>)}

\* datasets the loops are run on
LoopDataFrames == {NoneDF, SuperstoreDF, PartialDF}

SeqsUpTo(S, n) == UNION {[1..k -> S] : k \in 0..n}

\* response.text is optional: <<>> is None, <<t>> is the string t
NoText == <<>>
Texts == {NoText, <<"">>, <<"There are 9994 rows in this dataset.">>}

Responses == [function_calls : SeqsUpTo(ModelToolCalls, MaxFunctionCalls), text : Texts]

Queries == {"How many rows are in this dataset?"}

ApiErrors == {"503 UNAVAILABLE", "429 RESOURCE_EXHAUSTED"}

\* an empty text counts as text
Truthy_mutant(text) == text # <<>>

\* Python truthiness of an optional string
Truthy(text) == text # <<>> /\ text[1] # ""

-----------------------------------------------------------------------------
(* The dispatcher called on its own *)

DIdle ==
    /\ d_pc = "idle" /\ d_name = "" /\ d_kwargs = <<>> /\ d_df = NoneDF
    /\ d_outcome = NoOutcome /\ d_invoked = {}

SIdle ==
    /\ pc = "idle" /\ user_query = "" /\ df = NoneDF /\ turn = 0
    /\ conversation_history = <<>> /\ contents = <<>>
    /\ model_calls = 0 /\ dispatches = 0 /\ last_dispatch = NoDispatch
    /\ api_error = <<>> /\ final_response = NoResponse
    /\ requests = NoRequests /\ later_run = FALSE
    /\ run_outcome = NoOutcome

TSIdle ==
    /\ ts_pc = "idle" /\ ts_query = "" /\ ts_df = NoneDF
    /\ decision = "" /\ tool_call_string = "" /\ tool_output_str = ""
    /\ ts_model_calls = 0 /\ ts_dispatches = 0 /\ ts_last_dispatch = NoDispatch
    /\ ts_contents = "" /\ ts_failed_call = "none" /\ ts_answer = <<>>
    /\ ts_outcome = NoOutcome

InitDispatch ==
    /\ d_pc = "ready"
    /\ d_name \in ToolNames
    /\ d_kwargs \in KwargMappings
    /\ d_df \in DataFrames
    /\ d_outcome = NoOutcome
    /\ d_invoked = {}
    /\ SIdle
    /\ TSIdle

Dispatch ==
    /\ d_pc = "ready"
    /\ \E disk_ok \in BOOLEAN :
         LET r == call_tool(d_name, d_df, d_kwargs, disk_ok) IN
           /\ d_outcome' = r.outcome
           /\ d_invoked' = r.invoked
    /\ d_pc' = "done"
    /\ UNCHANGED <<d_name, d_kwargs, d_df, s_vars, ts_vars>>

NextDispatch == Dispatch

SpecDispatch == InitDispatch /\ [][NextDispatch]_vars

-----------------------------------------------------------------------------
(* agent_patterns.py: enterprise_agent *)

max_turns == 5

UserTurn(q) == [role |-> "user", parts |-> <<[text |-> q]>>]
ModelTurn(tool_call) == [role |-> "model", parts |-> <<[functionCall |-> tool_call]>>]
ToolTurn(tool_name, resp) ==
    [role |-> "tool",
     parts |-> <<[functionResponse |-> [name |-> tool_name, response |-> resp]]>>]

\* the error is tagged with the 0-based loop variable
ApiErrorMessage_mutant(t, e) == "API ERROR during turn " \o ToString(t) \o ": " \o e

ApiErrorMessage(t, e) == "API ERROR during turn " \o ToString(t + 1) \o ": " \o e
\* the raw exception text is recorded as the tool result
InternalToolError_mutant(e) == [error |-> e]

InternalToolError(e) == [error |-> "Internal tool execution error: " \o e]
FallbackMessage == "Agent failed to generate a response or requested a tool not handled."
ExhaustedMessage == "Agent exceeded maximum conversation turns without providing a final answer."

\* the except path forgets the tool-result turn
ToolCallTurns_mutant(tool_call, outcome) ==
    IF outcome.kind = "return"
    THEN <<[role |-> "model", parts |-> <<[functionCall |-> tool_call]>>],
           [role |-> "tool",
            parts |-> <<[functionResponse |->
                           [name |-> tool_call.name, response |-> outcome.value]]>>]>>
    ELSE <<[role |-> "model", parts |-> <<[functionCall |-> tool_call]>>]>>

\* The two turns one handled tool-call request appends (try and except path).
ToolCallTurns(tool_call, outcome) ==
    IF outcome.kind = "return"
    THEN <<ModelTurn(tool_call), ToolTurn(tool_call.name, outcome.value)>>
    ELSE <<ModelTurn(tool_call), ToolTurn(tool_call.name, InternalToolError(outcome.exc))>>

\* the list outlives the call and the new query is appended to it
FreshHistory_mutant(previous, q) == previous \o <<UserTurn(q)>>

\* conversation_history is created anew by every call; previous is the list
\* of the call before, which the new call cannot reach
FreshHistory(previous, q) == <<UserTurn(q)>>

\* only the user query is sent
ModelContents_mutant(history) == <<history[1]>>

\* contents=conversation_history of the generate_content call
ModelContents(history) == history

\* the last request of the response is taken
FirstRequest_mutant(function_calls) == function_calls[Len(function_calls)]

\* response.function_calls[0]
FirstRequest(function_calls) == function_calls[1]

Init ==
    /\ pc = "call_model"
    /\ user_query \in Queries
    /\ df \in LoopDataFrames
    /\ turn = 0
    /\ conversation_history = FreshHistory(<<>>, user_query)
    /\ contents = <<>>
    /\ model_calls = 0
    /\ dispatches = 0
    /\ last_dispatch = NoDispatch
    /\ api_error = <<>>
    /\ final_response = NoResponse
    /\ requests = NoRequests
    /\ later_run = FALSE
    /\ run_outcome = NoOutcome
    /\ DIdle
    /\ TSIdle

\* off-by-one loop bound: a sixth iteration is let in
InLoop_mutant == pc = "call_model" /\ turn <= max_turns

InLoop == pc = "call_model" /\ turn < max_turns

\* generate_content raises: the run returns the tagged error string
ModelCallFails ==
    /\ InLoop
    /\ \E e \in ApiErrors :
         /\ api_error' = <<e>>
         /\ run_outcome' = Return(ApiErrorMessage(turn, e))
    /\ contents' = ModelContents(conversation_history)
    /\ model_calls' = model_calls + 1
    /\ pc' = "done"
    /\ UNCHANGED <<user_query, df, turn, conversation_history, dispatches,
                   last_dispatch, final_response, requests, later_run,
                   d_vars, ts_vars>>

\* the response carries tool-call requests: dispatch the first, record it,
\* continue (response.text is not read on this branch)
ToolCallTurn ==
    /\ InLoop
    /\ \E function_calls \in SeqsUpTo(ModelToolCalls, MaxFunctionCalls),
          disk_ok \in BOOLEAN :
         /\ function_calls # <<>>
         /\ LET tool_call == FirstRequest(function_calls)
                tool_name == tool_call.name
                tool_args == tool_call.args
                r == call_tool(tool_name, df, tool_args, disk_ok)
            IN /\ conversation_history' =
                     conversation_history \o ToolCallTurns(tool_call, r.outcome)
               /\ last_dispatch' = Dispatched(tool_name, tool_args, r)
         /\ requests' = [count |-> Len(function_calls), first |-> function_calls[1]]
    /\ contents' = ModelContents(conversation_history)
    /\ model_calls' = model_calls + 1
    /\ dispatches' = dispatches + 1
    /\ turn' = turn + 1
    /\ UNCHANGED <<pc, user_query, df, api_error, final_response, later_run,
                   run_outcome, d_vars, ts_vars>>

\* no tool-call request, text present: return the text
TextTurn ==
    /\ InLoop
    /\ \E resp \in Responses :
         /\ resp.function_calls = <<>>
         /\ Truthy(resp.text)
         /\ final_response' = resp
         /\ run_outcome' = Return(resp.text[1])
    /\ contents' = ModelContents(conversation_history)
    /\ model_calls' = model_calls + 1
    /\ pc' = "done"
    /\ UNCHANGED <<user_query, df, turn, conversation_history, dispatches,
                   last_dispatch, api_error, requests, later_run, d_vars, ts_vars>>

\* neither a tool-call request nor text
EmptyTurn ==
    /\ InLoop
    /\ \E resp \in Responses :
         /\ resp.function_calls = <<>>
         /\ ~Truthy(resp.text)
         /\ final_response' = resp
    /\ run_outcome' = Return(FallbackMessage)
    /\ contents' = ModelContents(conversation_history)
    /\ model_calls' = model_calls + 1
    /\ pc' = "done"
    /\ UNCHANGED <<user_query, df, turn, conversation_history, dispatches,
                   last_dispatch, api_error, requests, later_run, d_vars, ts_vars>>

\* the for loop ran out of turns
Exhausted ==
    /\ pc = "call_model"
    /\ turn >= max_turns
    /\ run_outcome' = Return(ExhaustedMessage)
    /\ pc' = "done"
    /\ UNCHANGED <<user_query, df, turn, conversation_history, contents,
                   model_calls, dispatches, last_dispatch, api_error,
                   final_response, requests, later_run, d_vars, ts_vars>>

\* the caller invokes enterprise_agent again after a run has returned
NewRun ==
    /\ pc = "done"
    /\ \E q \in Queries :
         /\ user_query' = q
         /\ conversation_history' = FreshHistory(conversation_history, q)
    /\ pc' = "call_model"
    /\ turn' = 0
    /\ contents' = <<>>
    /\ model_calls' = 0
    /\ dispatches' = 0
    /\ last_dispatch' = NoDispatch
    /\ api_error' = <<>>
    /\ final_response' = NoResponse
    /\ requests' = NoRequests
    /\ later_run' = TRUE
    /\ run_outcome' = NoOutcome
    /\ UNCHANGED <<df, d_vars, ts_vars>>

Next ==
    \/ ModelCallFails
    \/ ToolCallTurn
    \/ TextTurn
    \/ EmptyTurn
    \/ Exhausted
    \/ NewRun

Spec == Init /\ [][Next]_vars

-----------------------------------------------------------------------------
(* Python str methods used by the two-step loop *)

Whitespace == {" ", "\t", "\n", "\r"}

CharAt(s, i) == SubSeq(s, i, i)

RECURSIVE LStrip(_)
LStrip(s) == IF s # "" /\ CharAt(s, 1) \in Whitespace THEN LStrip(Tail(s)) ELSE s

RECURSIVE RStrip(_)
RStrip(s) ==
    IF s # "" /\ CharAt(s, Len(s)) \in Whitespace
    THEN RStrip(SubSeq(s, 1, Len(s) - 1))
    ELSE s

\* s.strip()
Strip(s) == RStrip(LStrip(s))

\* s.startswith(prefix)
StartsWith(s, prefix) == Len(s) >= Len(prefix) /\ SubSeq(s, 1, Len(prefix)) = prefix

\* s.find(sub) as a 1-based index, 0 when sub does not occur
Find(s, sub) ==
    LET hits == {i \in 1..(Len(s) - Len(sub) + 1) : SubSeq(s, i, i + Len(sub) - 1) = sub}
    IN IF hits = {} THEN 0 ELSE CHOOSE i \in hits : \A j \in hits : i <= j

\* sub in s
Contains(s, sub) == Find(s, sub) # 0

\* s.split(sep, maxsplit); maxsplit = -1 splits at every occurrence
RECURSIVE Split(_, _, _)
Split(s, sep, maxsplit) ==
    LET i == Find(s, sep) IN
      IF maxsplit = 0 \/ i = 0
      THEN <<s>>
      ELSE <<SubSeq(s, 1, i - 1)>>
             \o Split(SubSeq(s, i + Len(sep), Len(s)), sep,
                      IF maxsplit < 0 THEN maxsplit ELSE maxsplit - 1)

\* s.replace(ch, "") for a one-character ch, halving s so that long strings
\* do not nest the evaluation deeply
RECURSIVE RemoveChar(_, _)
RemoveChar(s, ch) ==
    IF Len(s) <= 1
    THEN (IF s = ch THEN "" ELSE s)
    ELSE LET mid == Len(s) \div 2
         IN RemoveChar(SubSeq(s, 1, mid), ch) \o RemoveChar(SubSeq(s, mid + 1, Len(s)), ch)

\* repr() of a str: double quotes when it holds ' and no "
PyRepr(s) ==
    IF Contains(s, "'") /\ ~Contains(s, "\"")
    THEN "\"" \o s \o "\""
    ELSE "'" \o s \o "'"

\* str() of a tool result
PyStr(v) ==
    IF "error" \in DOMAIN v THEN "{'error': " \o PyRepr(v.error) \o "}"
    ELSE IF "shape" \in DOMAIN v
    THEN "{'shape': [" \o ToString(v.shape[1]) \o ", " \o ToString(v.shape[2]) \o "]}"
    ELSE IF "column" \in DOMAIN v
    THEN "{'column': " \o PyRepr(v.column) \o ", 'note': " \o PyRepr(v.note) \o "}"
    ELSE "{'sales_distribution_plot': " \o PyRepr(v.sales_distribution_plot)
           \o ", 'category_performance_plot': " \o PyRepr(v.category_performance_plot)
           \o ", 'discount_profit_scatter_plot': "
           \o PyRepr(v.discount_profit_scatter_plot) \o "}"

\* the slice is left out: the whole string is kept
Truncate_mutant(s, n) == s

\* s[:n]
Truncate(s, n) == IF Len(s) <= n THEN s ELSE SubSeq(s, 1, n)

-----------------------------------------------------------------------------
(* agent_patterns.py: call_tool_two_step *)

\* re.search(r'\((.*?)\)', s): <<>> when there is no match, else <<group(1)>>.
\* The match starts at the leftmost "(" that has a ")" after it on the same
\* line and ends at the first such ")".
match_params(s) ==
    LET closes(i) == {j \in (i + 1)..Len(s) :
                         /\ CharAt(s, j) = ")"
                         /\ \A k \in (i + 1)..(j - 1) : CharAt(s, k) # "\n"}
        opens == {i \in 1..Len(s) : CharAt(s, i) = "(" /\ closes(i) # {}}
    IN IF opens = {} THEN <<>>
       ELSE LET i == CHOOSE a \in opens : \A b \in opens : a <= b
                j == CHOOSE a \in closes(i) : \A b \in closes(i) : a <= b
            IN <<SubSeq(s, i + 1, j - 1)>>

\* the tool name and kwargs call_tool_two_step hands to call_tool
ParseToolCall(name_and_args) ==
    LET m == match_params(name_and_args)
        tool_name == Strip(Split(name_and_args, "(", -1)[1])
        args_str == Strip(RemoveChar(RemoveChar(m[1], "'"), "\""))
        kv == Split(args_str, "=", 1)
    IN [tool_name |-> tool_name,
        kwargs |-> IF m # <<>> /\ Contains(args_str, "=")
                   THEN Strip(kv[1]) :> Strip(kv[2])
                   ELSE <<>>]

call_tool_two_step(name_and_args, d, disk_ok) ==
    LET p == ParseToolCall(name_and_args)
    IN Dispatched(p.tool_name, p.kwargs, call_tool(p.tool_name, d, p.kwargs, disk_ok))

-----------------------------------------------------------------------------
(* agent_patterns.py: ask_model_for_action, enterprise_agent_new *)

\* The prompt's backquote characters are written as ' here: TLA+ string
\* literals cannot hold a backquote.
tool_list == "'data_summary', 'automated_eda', 'check_for_outliers(column_name:str)'"

DecisionPrompt(q) ==
    "You are an assistant that can call local python tools. "
    \o "The ONLY valid tool names are: " \o tool_list \o ". "
    \o "When appropriate, respond ONLY with exactly 'TOOL:<tool_name>' (e.g. TOOL:automated_eda, or TOOL:check_for_outliers(column_name='profit')) to request a local tool, "
    \o "or respond with 'RESPONSE:<your answer>' when you can answer directly. "
    \o "Do NOT include anything else. Now decide for this user query:\n\n"
    \o "User query: " \o q \o "\n"

FollowupPrompt(q, call_string, output_str) ==
    "The requested tool has been executed and produced the following output:\n\n"
    \o "TOOL: " \o call_string \o "\n\nOUTPUT:\n" \o output_str \o "\n\n"
    \o "Using the original user query and the tool output above, "
    \o "produce a helpful, concise summary and any actionable insights. "
    \o "Be explicit about the charts produced (if any) and mention their filenames so they can be viewed."
    \o "\n\nOriginal user query: " \o q \o "\n"

FallbackPrompt(q, dec) ==
    "User: " \o q \o "\nThe agent decision was irregular ('" \o dec
    \o "'). Please answer the user query directly and professionally."

OutputLimit == 20000

\* the elif for RESPONSE: is missing
Branch_mutant(dec) == IF StartsWith(dec, "TOOL:") THEN "tool" ELSE "fallback"

\* the if / elif / else of enterprise_agent_new
Branch(dec) ==
    IF StartsWith(dec, "TOOL:") THEN "tool"
    ELSE IF StartsWith(dec, "RESPONSE:") THEN "response"
    ELSE "fallback"

\* decision.split("TOOL:")[1].strip()
ToolCallString(dec) == Strip(Split(dec, "TOOL:", -1)[2])

\* the answer is cut at a second RESPONSE:, as a split without maxsplit does
ResponseText_mutant(dec) == Strip(Split(dec, "RESPONSE:", -1)[2])

\* decision.split("RESPONSE:",1)[1].strip()
ResponseText(dec) == Strip(Split(dec, "RESPONSE:", 1)[2])

\* s * n
RECURSIVE Rep(_, _)
Rep(s, n) ==
    IF n = 0 THEN ""
    ELSE LET h == Rep(s, n \div 2) IN h \o h \o (IF n % 2 = 1 THEN s ELSE "")

LongNameLen == 20000      \* length of the long column name a decision can carry

\* texts the model answers the decision prompt with
DecisionTexts ==
    {"TOOL:data_summary",
     "TOOL:automated_eda",
     " TOOL:check_for_outliers(column_name='profit')\n",
     "TOOL:check_for_outliers",
     "TOOL:check_for_outliers(name='x')",
     "TOOL:check_for_outliers(column_name=\"sales\", name='x')",
     "TOOL: summary ()",
     "TOOL:check_for_outliers(\n  column_name='profit'\n)",
     "TOOL:check_for_outliers(column_name=" \o Rep("x", LongNameLen) \o ")",
     "TOOL:data_summary TOOL:automated_eda",
     "TOOL:",
     "RESPONSE: There are 9994 rows. ",
     "RESPONSE:a RESPONSE:b",
     "RESPONSE:",
     "MAYBE:do something",
     "tool:data_summary",
     "I would call TOOL:data_summary",
     ""}

\* texts the model answers the interpretation and fallback prompts with
AnswerTexts == {"The dataset has 3 rows.", ""}

InitTwoStep ==
    /\ ts_pc = "decide"
    /\ ts_query \in Queries
    /\ ts_df \in LoopDataFrames
    /\ decision = ""
    /\ tool_call_string = ""
    /\ tool_output_str = ""
    /\ ts_model_calls = 0
    /\ ts_dispatches = 0
    /\ ts_last_dispatch = NoDispatch
    /\ ts_contents = ""
    /\ ts_failed_call = "none"
    /\ ts_answer = <<>>
    /\ ts_outcome = NoOutcome
    /\ DIdle
    /\ SIdle

\* a generate_content call of the two-step loop raises: nothing catches it
TSModelCallRaises(at, prompt) ==
    /\ \E e \in ApiErrors : ts_outcome' = Raise(e)
    /\ ts_contents' = prompt
    /\ ts_model_calls' = ts_model_calls + 1
    /\ ts_failed_call' = at
    /\ ts_pc' = "done"
    /\ UNCHANGED <<ts_query, ts_df, decision, tool_call_string, tool_output_str,
                   ts_dispatches, ts_last_dispatch, ts_answer, d_vars, s_vars>>

\* a generate_content call after the decision returns text: the run returns it
TSModelCallAnswers(prompt) ==
    /\ \E text \in AnswerTexts :
         /\ ts_answer' = <<text>>
         /\ ts_outcome' = Return(text)
    /\ ts_contents' = prompt
    /\ ts_model_calls' = ts_model_calls + 1
    /\ ts_pc' = "done"
    /\ UNCHANGED <<ts_query, ts_df, decision, tool_call_string, tool_output_str,
                   ts_dispatches, ts_last_dispatch, ts_failed_call, d_vars, s_vars>>

\* Step 1, ask_model_for_action returns the stripped text
AskModel ==
    /\ ts_pc = "decide"
    /\ \E text \in DecisionTexts : decision' = Strip(text)
    /\ ts_contents' = DecisionPrompt(ts_query)
    /\ ts_model_calls' = ts_model_calls + 1
    /\ ts_pc' = "branch"
    /\ UNCHANGED <<ts_query, ts_df, tool_call_string, tool_output_str, ts_dispatches,
                   ts_last_dispatch, ts_failed_call, ts_answer, ts_outcome,
                   d_vars, s_vars>>

AskModelRaises ==
    /\ ts_pc = "decide"
    /\ TSModelCallRaises("decision", DecisionPrompt(ts_query))

\* decision starts with TOOL: -- parse, dispatch, stringify
ToolBranch ==
    /\ ts_pc = "branch"
    /\ Branch(decision) = "tool"
    /\ \E disk_ok \in BOOLEAN :
         LET call_string == ToolCallString(decision)
             r == call_tool_two_step(call_string, ts_df, disk_ok)
         IN /\ tool_call_string' = call_string
            /\ ts_last_dispatch' = r
            /\ IF r.outcome.kind = "raise"
               THEN /\ ts_outcome' = r.outcome
                    /\ ts_pc' = "done"
                    /\ UNCHANGED tool_output_str
               ELSE /\ tool_output_str' = Truncate(PyStr(r.outcome.value), OutputLimit)
                    /\ ts_pc' = "interpret"
                    /\ UNCHANGED ts_outcome
    /\ ts_dispatches' = ts_dispatches + 1
    /\ UNCHANGED <<ts_query, ts_df, decision, ts_model_calls, ts_contents,
                   ts_failed_call, ts_answer, d_vars, s_vars>>

\* Step 2, the interpretation call
Interpret ==
    /\ ts_pc = "interpret"
    /\ TSModelCallAnswers(FollowupPrompt(ts_query, tool_call_string, tool_output_str))

InterpretRaises ==
    /\ ts_pc = "interpret"
    /\ TSModelCallRaises("interpretation",
                         FollowupPrompt(ts_query, tool_call_string, tool_output_str))

\* decision starts with RESPONSE:
ResponseBranch ==
    /\ ts_pc = "branch"
    /\ Branch(decision) = "response"
    /\ ts_outcome' = Return(ResponseText(decision))
    /\ ts_pc' = "done"
    /\ UNCHANGED <<ts_query, ts_df, decision, tool_call_string, tool_output_str,
                   ts_model_calls, ts_dispatches, ts_last_dispatch, ts_contents,
                   ts_failed_call, ts_answer, d_vars, s_vars>>

\* the irregular decision text is handed back without asking the model again
Fallback_mutant ==
    /\ ts_pc = "branch"
    /\ Branch(decision) = "fallback"
    /\ ts_outcome' = Return(decision)
    /\ ts_pc' = "done"
    /\ UNCHANGED <<ts_query, ts_df, decision, tool_call_string, tool_output_str,
                   ts_model_calls, ts_dispatches, ts_last_dispatch, ts_contents,
                   ts_failed_call, ts_answer, d_vars, s_vars>>

\* neither prefix: the fallback call
Fallback ==
    /\ ts_pc = "branch"
    /\ Branch(decision) = "fallback"
    /\ TSModelCallAnswers(FallbackPrompt(ts_query, decision))

FallbackRaises ==
    /\ ts_pc = "branch"
    /\ Branch(decision) = "fallback"
    /\ TSModelCallRaises("fallback", FallbackPrompt(ts_query, decision))

NextTwoStep ==
    \/ AskModel
    \/ AskModelRaises
    \/ ToolBranch
    \/ Interpret
    \/ InterpretRaises
    \/ ResponseBranch
    \/ Fallback
    \/ FallbackRaises

SpecTwoStep == InitTwoStep /\ [][NextTwoStep]_vars

-----------------------------------------------------------------------------
(* Properties of the structured loop, checked under Spec *)

\* C1: one run of the structured loop issues at most 5 model calls, and a run
\* whose 5 model responses all requested a tool returns the fixed exhaustion
\* message.
C1_TurnLimit ==
    /\ model_calls <= 5
    /\ (pc = "done" /\ dispatches = 5) =>
          run_outcome = Return("Agent exceeded maximum conversation turns without providing a final answer.")

C1_Witness ==
    pc = "done" /\ model_calls = 5 /\ dispatches = 5 /\ run_outcome.kind = "return"

IsRequestTurn(t) == t.role = "model"
IsResultTurn(t) == t.role = "tool"

NoDanglingRequest(h) ==
    \A i \in 1..Len(h) :
        IsRequestTurn(h[i]) =>
            /\ i + 1 <= Len(h)
            /\ IsResultTurn(h[i + 1])
            /\ h[i + 1].parts[1].functionResponse.name = h[i].parts[1].functionCall.name
            /\ (i + 2 <= Len(h) => ~IsResultTurn(h[i + 2]))

\* C2: at every model call and at every return, each tool-call request turn
\* of the conversation state is immediately followed by exactly one
\* tool-result turn carrying the same tool name, on the successful-dispatch
\* path and on the tool-exception path alike.
C2_NoDanglingRequest ==
    /\ NoDanglingRequest(conversation_history)
    /\ NoDanglingRequest(contents)

IsInternalError(payload) ==
    /\ "error" \in DOMAIN payload
    /\ StartsWith(payload.error, "Internal tool execution error: ")

\* a model call saw a pair appended by the except path and one appended by
\* the try path
C2_Witness ==
    /\ \E i \in 1..Len(contents) :
          /\ IsResultTurn(contents[i])
          /\ IsInternalError(contents[i].parts[1].functionResponse.response)
    /\ \E j \in 1..Len(contents) :
          /\ IsResultTurn(contents[j])
          /\ ~IsInternalError(contents[j].parts[1].functionResponse.response)

\* C4: when the model call of turn k fails the run ends at once with the
\* string "API ERROR during turn k: <error>", after exactly k model calls and
\* k-1 tool dispatches; no later step adds a call or a dispatch.
C4_ApiErrorTerminal ==
    api_error # <<>> =>
        LET k == turn + 1 IN
          /\ k \in 1..5
          /\ pc = "done"
          /\ run_outcome =
                Return("API ERROR during turn " \o ToString(k) \o ": " \o api_error[1])
          /\ model_calls = k
          /\ dispatches = k - 1

C4_Witness == api_error # <<>> /\ turn = 2 /\ pc = "done"

\* C8: a tool call whose dispatch raises appends the request turn and a
\* tool-result turn with payload {"error": "Internal tool execution error:
\* <message>"}, and the loop goes on to the next iteration; the run never
\* raises to its caller.
C8_ToolExceptionIsolated ==
    /\ [](run_outcome.kind # "raise")
    /\ [][(dispatches' = dispatches + 1 /\ last_dispatch'.outcome.kind = "raise") =>
            /\ conversation_history' = conversation_history \o
                 <<[role |-> "model",
                    parts |-> <<[functionCall |->
                                   [name |-> last_dispatch'.name,
                                    args |-> last_dispatch'.kwargs]]>>],
                   [role |-> "tool",
                    parts |-> <<[functionResponse |->
                                   [name |-> last_dispatch'.name,
                                    response |->
                                      [error |-> "Internal tool execution error: "
                                                   \o last_dispatch'.outcome.exc]]]>>]>>
            /\ pc' = "call_model"
            /\ turn' = turn + 1
            /\ run_outcome' = NoOutcome]_vars

\* a dispatch raised and the model was called again with the error turn
C8_Witness ==
    /\ last_dispatch.outcome.kind = "raise"
    /\ model_calls = dispatches + 1
    /\ contents = conversation_history
    /\ pc = "done"

\* C10: when the k-th response carries no tool-call request the run returns at
\* turn k after exactly k model calls and k-1 tool dispatches: the response
\* text when text is present, the fixed fallback message otherwise.
C10_FinalAnswer ==
    final_response # NoResponse =>
        LET k == turn + 1
            text == final_response.text
        IN /\ k \in 1..5
           /\ pc = "done"
           /\ model_calls = k
           /\ dispatches = k - 1
           /\ Len(conversation_history) = 2 * k - 1
           /\ run_outcome =
                 IF text # <<>> /\ text[1] # ""
                 THEN Return(text[1])
                 ELSE Return("Agent failed to generate a response or requested a tool not handled.")

C10_Witness ==
    /\ final_response # NoResponse
    /\ final_response.text = <<"">>
    /\ turn = 2
    /\ pc = "done"

-----------------------------------------------------------------------------
(* Properties of the dispatcher, checked under SpecDispatch *)

RegisteredTools == {"data_summary", "automated_eda", "check_for_outliers"}

\* C6: for every tool name outside the three registered names and every
\* keyword-argument mapping, call_tool returns {"error": "Unknown tool:
\* <name>"}, does not raise and enters no analysis function.
C6_UnknownTool ==
    (d_pc = "done" /\ d_name \notin RegisteredTools) =>
        /\ d_outcome = Return([error |-> "Unknown tool: " \o d_name])
        /\ d_invoked = {}

\* C7: for every keyword-argument mapping without the key column_name,
\* whatever other keys it holds, dispatching check_for_outliers returns the
\* fixed missing-parameter error and does not enter the outlier function.
C7_MissingColumnName ==
    (d_pc = "done" /\ d_name = "check_for_outliers"
        /\ "column_name" \notin DOMAIN d_kwargs) =>
        /\ d_outcome = Return([error |->
              "Tool 'check_for_outliers' requires the 'column_name' parameter."])
        /\ d_invoked = {}

-----------------------------------------------------------------------------
(* Properties of the two-step loop, checked under SpecTwoStep *)

\* C3 as stated: at most 2 model calls, and 2 only when the decision starts
\* with TOOL:.
C3_TwoCallsOnlyForTool ==
    /\ ts_model_calls <= 2
    /\ ts_model_calls = 2 => StartsWith(decision, "TOOL:")

\* C3 amended: one run of the two-step loop issues at most 2 model calls; it
\* issues 2 only when the trimmed decision does not start with RESPONSE: (it
\* starts with TOOL:, or with neither prefix and the fallback call is made),
\* and a run whose decision starts with RESPONSE: ends after exactly 1.
C3_TwoCallsUnlessResponse ==
    /\ ts_model_calls <= 2
    /\ ts_model_calls = 2 => ~StartsWith(decision, "RESPONSE:")
    /\ (ts_pc = "done" /\ StartsWith(decision, "RESPONSE:")) => ts_model_calls = 1

C3_Witness ==
    /\ ts_pc = "done"
    /\ ts_model_calls = 2
    /\ decision = "MAYBE:do something"

\* C5: a failure raised by the decision, interpretation or fallback model call
\* reaches the caller as a returned string, not as a raised exception.
C5_ModelFailureReturned ==
    ts_failed_call # "none" => ts_outcome.kind = "return"

\* C9: a two-step run whose dispatched tool function fails still returns a
\* string to its caller; the fault does not surface as an exception.
C9_ToolFaultReturned ==
    (ts_pc = "done" /\ ts_last_dispatch.invoked # {}
        /\ ts_last_dispatch.outcome.kind = "raise") =>
        ts_outcome.kind = "return"

\* decision texts of the form TOOL:<name>(<key>='<value>')
ToolDecision(name, key, value) == "TOOL:" \o name \o "(" \o key \o "='" \o value \o "')"

\* C11: for a decision text TOOL:<name>(<key>='<value>') the parser extracts
\* the name and the mapping {<key>: <value>}, the dispatcher is invoked exactly
\* once with them, and exactly one interpretation call follows whose text is
\* the run's return value.
C11_ToolDecisionScenario ==
    \A name \in {"check_for_outliers"}, key \in {"column_name", "name"},
       value \in {"profit", "x"} :
        (ts_pc = "done" /\ decision = ToolDecision(name, key, value)) =>
            /\ ts_last_dispatch.name = name
            /\ ts_last_dispatch.kwargs = (key :> value)
            /\ ts_dispatches = 1
            /\ ts_model_calls = 2
            /\ ts_failed_call = "none" =>
                  (ts_answer # <<>> /\ ts_outcome = Return(ts_answer[1]))

\* C12: when the trimmed decision starts with neither TOOL: nor RESPONSE:,
\* exactly one fallback model call follows the decision call, no tool is
\* dispatched, and the text of the fallback call is returned.
C12_FallbackScenario ==
    (/\ ts_pc = "done"
     /\ ts_failed_call # "decision"
     /\ ~StartsWith(decision, "TOOL:")
     /\ ~StartsWith(decision, "RESPONSE:")) =>
        /\ ts_model_calls = 2
        /\ ts_dispatches = 0
        /\ ts_last_dispatch = NoDispatch
        /\ ts_contents =
              "User: " \o ts_query \o "\nThe agent decision was irregular ('" \o decision
                \o "'). Please answer the user query directly and professionally."
        /\ ts_failed_call = "none" =>
              (ts_answer # <<>> /\ ts_outcome = Return(ts_answer[1]))

C12_Witness ==
    /\ ts_pc = "done"
    /\ decision = "MAYBE:do something"
    /\ ts_answer = <<"The dataset has 3 rows.">>
    /\ ts_outcome = Return("The dataset has 3 rows.")

\* C15: for every decision starting with TOOL:, the tool call string handed
\* to the parser and embedded in the interpretation prompt is the whole
\* trimmed remainder after the leading prefix, also when the remainder holds
\* TOOL: again.
C15_WholeRemainder ==
    (ts_dispatches = 1 /\ StartsWith(decision, "TOOL:")) =>
        LET remainder == Strip(SubSeq(decision, 6, Len(decision))) IN
          /\ tool_call_string = remainder
          /\ ts_answer # <<>> =>
                ts_contents = FollowupPrompt(ts_query, remainder, tool_output_str)

\* C16: for every decision starting with RESPONSE:, the run returns the
\* trimmed remainder after the leading prefix, also when the remainder holds
\* RESPONSE: again, after exactly 1 model call and 0 tool dispatches.
C16_ResponseReturned ==
    (ts_pc = "done" /\ StartsWith(decision, "RESPONSE:")) =>
        /\ ts_outcome = Return(Strip(SubSeq(decision, 10, Len(decision))))
        /\ ts_model_calls = 1
        /\ ts_dispatches = 0

C16_Witness ==
    /\ ts_pc = "done"
    /\ decision = "RESPONSE:a RESPONSE:b"
    /\ ts_outcome = Return("a RESPONSE:b")

\* the first parenthesis group of s: <<>> when s has no "(" followed by a ")",
\* else <<text between the first "(" and the first ")" after it>>
FirstGroup(s) ==
    LET open == Find(s, "(")
        rest == SubSeq(s, open + 1, Len(s))
        close == Find(rest, ")")
    IN IF open = 0 \/ close = 0 THEN <<>> ELSE <<SubSeq(rest, 1, close - 1)>>

\* C17: for every tool call string the parser hands the dispatcher the trimmed
\* text before the first "(" as tool name and at most one keyword argument:
\* none when there is no parenthesis group or the group holds no "=",
\* otherwise the one pair got by stripping the quote characters from the first
\* parenthesis group and splitting it on its first "=".
C17_ParserContract ==
    ts_dispatches = 1 =>
        LET s == tool_call_string
            open == Find(s, "(")
            group == FirstGroup(s)
            unquoted == RemoveChar(RemoveChar(group[1], "'"), "\"")
            eq == Find(unquoted, "=")
        IN /\ ts_last_dispatch.name =
                 Strip(IF open = 0 THEN s ELSE SubSeq(s, 1, open - 1))
           /\ ts_last_dispatch.kwargs =
                 IF group = <<>> \/ eq = 0
                 THEN <<>>
                 ELSE Strip(SubSeq(unquoted, 1, eq - 1))
                        :> Strip(SubSeq(unquoted, eq + 1, Len(unquoted)))

\* C18: in the TOOL branch the tool output embedded in the interpretation
\* prompt is the stringified dispatcher result cut to at most 20,000
\* characters: a prefix of the full string, equal to it when that has 20,000
\* characters or fewer and exactly 20,000 characters long otherwise.
C18_OutputTruncated ==
    (ts_dispatches = 1 /\ ts_last_dispatch.outcome.kind = "return") =>
        LET full == PyStr(ts_last_dispatch.outcome.value) IN
          /\ Len(tool_output_str) <= 20000
          /\ tool_output_str = SubSeq(full, 1, Len(tool_output_str))
          /\ Len(full) <= 20000 => tool_output_str = full
          /\ Len(full) > 20000 => Len(tool_output_str) = 20000
          /\ ts_model_calls = 2 =>
                ts_contents = FollowupPrompt(ts_query, tool_call_string, tool_output_str)

C18_Witness ==
    /\ ts_pc = "done"
    /\ ts_model_calls = 2
    /\ ts_last_dispatch.outcome.kind = "return"
    /\ Len(PyStr(ts_last_dispatch.outcome.value)) > 20000
    /\ Len(tool_output_str) = 20000

\* the payload the tool-result turn of a dispatch carries
ResultPayload(d) ==
    IF d.outcome.kind = "return"
    THEN d.outcome.value
    ELSE [error |-> "Internal tool execution error: " \o d.outcome.exc]

\* the tool-result turn of the last dispatch is the last turn of h
EndsWithLastResult(h) ==
    /\ Len(h) >= 3
    /\ h[Len(h)].role = "tool"
    /\ h[Len(h)].parts[1].functionResponse =
           [name |-> last_dispatch.name, response |-> ResultPayload(last_dispatch)]

\* C13 as stated: every tool result is visible to the model on the next
\* turn, so a run that has returned has made a model call after its last
\* dispatch and that call's conversation state holds the tool-result turn.
C13_EveryResultSeen ==
    (pc = "done" /\ dispatches >= 1) =>
        /\ model_calls > dispatches
        /\ EndsWithLastResult(contents)

\* C13 amended: the result of a dispatch in turns 1 to 4 is seen by the next
\* model call (the run cannot return before that call, and the call's
\* conversation state ends with that tool-result turn); the result of a
\* dispatch in turn 5 is appended but no model call follows it.
C13_ResultSeenBeforeLastTurn ==
    /\ model_calls > dispatches /\ dispatches >= 1 => EndsWithLastResult(contents)
    /\ (pc = "done" /\ dispatches \in 1..(max_turns - 1)) => model_calls = dispatches + 1
    /\ (pc = "done" /\ dispatches = max_turns) =>
          /\ model_calls = max_turns
          /\ EndsWithLastResult(conversation_history)
          /\ Len(contents) = Len(conversation_history) - 2
          /\ run_outcome = Return(ExhaustedMessage)

C13_Witness ==
    /\ pc = "done"
    /\ dispatches = 2
    /\ model_calls = 3
    /\ last_dispatch.outcome = Return([error |-> "Unknown tool: summary"])
    /\ EndsWithLastResult(contents)

\* C14: a response with one or more tool-call requests causes exactly one
\* dispatch, of its first request, and appends exactly one request turn and
\* one result turn, both for that first request; the other requests leave
\* no trace.
C14_FirstRequestOnly ==
    [][turn' = turn + 1 =>
          /\ requests'.count >= 1
          /\ dispatches' = dispatches + 1
          /\ last_dispatch'.name = requests'.first.name
          /\ last_dispatch'.kwargs = requests'.first.args
          /\ conversation_history' = conversation_history \o
                 <<[role |-> "model", parts |-> <<[functionCall |-> requests'.first]>>],
                   [role |-> "tool",
                    parts |-> <<[functionResponse |->
                                   [name |-> requests'.first.name,
                                    response |-> ResultPayload(last_dispatch')]]>>]>>]_vars

C14_Witness ==
    /\ requests.count >= 2
    /\ dispatches = 1
    /\ Len(conversation_history) = 3
    /\ conversation_history[2].parts[1].functionCall = requests.first
    /\ last_dispatch.name = requests.first.name

\* the conversation state h of a run that has made n dispatches
HistoryShape(h, n) ==
    /\ Len(h) = 2 * n + 1
    /\ h[1] = [role |-> "user", parts |-> <<[text |-> user_query]>>]
    /\ \A i \in 1..n :
          /\ h[2 * i].role = "model"
          /\ h[2 * i + 1].role = "tool"
          /\ h[2 * i + 1].parts[1].functionResponse.name =
                 h[2 * i].parts[1].functionCall.name

\* C19: the k-th model call of a run receives 2k-1 turns, the user turn
\* with the query followed by k-1 request/result pairs in dispatch order;
\* turns are only appended during a run, and a new run starts from the
\* user turn alone.
C19_ConversationShape ==
    /\ [](/\ HistoryShape(conversation_history, dispatches)
          /\ model_calls <= max_turns
          /\ model_calls >= 1 =>
                /\ Len(contents) = 2 * model_calls - 1
                /\ contents = SubSeq(conversation_history, 1, Len(contents))
          /\ dispatches >= 1 => EndsWithLastResult(conversation_history))
    /\ [][IF pc = "done" /\ pc' = "call_model"
          THEN /\ conversation_history' =
                     <<[role |-> "user", parts |-> <<[text |-> user_query']>>]>>
               /\ model_calls' = 0
          ELSE /\ Len(conversation_history') >= Len(conversation_history)
               /\ conversation_history =
                     SubSeq(conversation_history', 1, Len(conversation_history))]_vars

C19_Witness ==
    /\ later_run
    /\ pc = "done"
    /\ model_calls = 3
    /\ Len(contents) = 5
    /\ contents[1] = [role |-> "user", parts |-> <<[text |-> user_query]>>]

====
